---- MODULE Spec2Model ----
(***************************************************************************)
(* gatsby-image (packages/gatsby-image/src/index.js): the image cache, the *)
(* capability flags, the shared IntersectionObserver with its listener     *)
(* map, and the Image component's visibility / load / fade state machine.  *)
(*                                                                         *)
(* JavaScript runs every handler to completion on one thread, so each      *)
(* handler is one action.  The only handler that is split is the           *)
(* intersection callback of handleRef: it issues setState({isVisible}),    *)
(* React renders that state, and only then runs the setState callback that *)
(* issues the second update.  The render in between is a state of the      *)
(* program, but no other handler can run in between (React runs the        *)
(* callback in the commit of the first update), which the Idle guard says. *)
(*                                                                         *)
(* Spec is the life of two instances from construction to unmounting, the  *)
(* parent rendering a mounted instance again included, for images whose    *)
(* srcSet names their src; UpdateSpec is that life for every image of the  *)
(* model, without the error event of the img, which no handler of the      *)
(* component receives; RegistrySpec is the intersection registry used      *)
(* directly; LiveSpec is the deferred path under fair delivery.            *)
(***************************************************************************)
EXTENDS Naturals, Sequences, FiniteSets

VARIABLES
    env,              \* the globals the module probes when it is loaded
    imageCache,       \* own properties of the imageCache object (set of src)
    io,               \* TRUE once getIO has created the shared observer
    observed,         \* elements the shared observer observes
    listeners,        \* the WeakMap element -> callback
    cleanUpListeners, \* per element: the unsubscribe closure its subscriber holds
    ctrl,             \* per Image instance: props, instance fields, state
    reg,              \* per element: what the callers of the registry have seen
    handed,           \* per element: what the browser has handed to the observer
    thrown,           \* TRUE once a handler has thrown a TypeError
    events            \* per instance: load / error events its img has fired

vars == <<env, imageCache, io, observed, listeners, cleanUpListeners, ctrl,
          reg, handed, thrown, events>>

(***************************************************************************)
(* Bounds of the model.                                                    *)
(***************************************************************************)
\* load events one img element fires
MaxLoads == 2
\* error events one img element fires
MaxErrors == 1
\* calls of one unsubscribe closure
MaxUnsubCalls == 2

\* Image instances; the wrapper element an instance renders first is named
\* like it
Controllers == {"c1", "c2"}

\* the element React puts in the place of the wrapper of c when a later
\* render gives the wrapper another key; an instance is given one
Replacement(c) == IF c = "c1" THEN "c1'" ELSE "c2'"

Elements == Controllers \cup {Replacement(c) : c \in Controllers}

\* the instance whose render drew the element
owner(el) == CHOOSE c \in Controllers : el = c \/ el = Replacement(c)

\* ref is null when React detaches the ref callback from an element
Null == "null"

(***************************************************************************)
(* Props.  fluid is the list of variants as the caller passes it.          *)
(***************************************************************************)
\* a variant: the caller gives src and srcSet independently
Variant(s, set, m) == [src |-> s, srcSet |-> set, media |-> m]

\* Lists whose srcSet names the file of src.  groupByMedia puts a.jpg first
\* in the first one, so its identity is a.jpg; the identity of the second
\* is b.jpg; the src of the third and of the fourth is a relative URL that
\* is also the name of a member of Object.prototype, a method for the third,
\* the accessor "__proto__" for the fourth.
MatchingLists ==
    { <<Variant("b.jpg", "b.jpg 1x", FALSE), Variant("a.jpg", "a.jpg 1x", TRUE)>>,
      <<Variant("b.jpg", "b.jpg 1x", FALSE)>>,
      <<Variant("constructor", "constructor 1x", FALSE)>>,
      <<Variant("__proto__", "__proto__ 1x", FALSE)>> }

\* a list with the src of the second list and the srcSet of the first
MixedLists ==
    { <<Variant("b.jpg", "a.jpg 1x", FALSE)>> }

VariantLists == MatchingLists \cup MixedLists

PropsSet ==
    [critical : BOOLEAN, loading : {"lazy", "eager"}, fadeIn : BOOLEAN,
     fluid : VariantLists]

RECURSIVE SelectSeq2(_, _)
\* variants of seq whose media flag is m, in order
SelectSeq2(seq, m) ==
    IF seq = <<>> THEN <<>>
    ELSE IF Head(seq).media = m
         THEN <<Head(seq)>> \o SelectSeq2(Tail(seq), m)
         ELSE SelectSeq2(Tail(seq), m)

groupByMedia(imageVariants) ==
    SelectSeq2(imageVariants, TRUE) \o SelectSeq2(imageVariants, FALSE)

convertProps(props) ==
    [critical |-> props.critical,
     loading  |-> IF props.critical THEN "eager" ELSE props.loading,
     fadeIn   |-> props.fadeIn,
     fluid    |-> groupByMedia(props.fluid)]

getImageSrcKey(convertedProps) == convertedProps.fluid[1].src

\* key={`fluid-${JSON.stringify(image.srcSet)}`} of the wrapper, line 430;
\* image is the first variant of the grouped list
wrapperKey(props) == convertProps(props).fluid[1].srcSet

\* imageCache = Object.create({}), line 65: the object has no property of
\* its own, and reading a key it does not have gives what Object.prototype
\* has under that name: a function for eleven of its twelve names, the
\* prototype object for "__proto__"
PrototypeKeys ==
    {"constructor", "hasOwnProperty", "isPrototypeOf", "propertyIsEnumerable",
     "toLocaleString", "toString", "valueOf", "__defineGetter__",
     "__defineSetter__", "__lookupGetter__", "__lookupSetter__", "__proto__"}

\* imageCache[src] || false, lines 66-71: truthy for a key of its own (the
\* value is true) and for a member of Object.prototype
inImageCache(cache, props) ==
    LET src == getImageSrcKey(convertProps(props))
    IN  src \in cache \/ src \in PrototypeKeys

\* activateCacheForImage() writing a fresh cache object with the one key
activateCacheForImageReplaces(cache, props) ==
    {getImageSrcKey(convertProps(props))}

\* imageCache[src] = true, lines 73-78: the object gets the key as a property
\* of its own, except under "__proto__", where the assignment runs the
\* inherited setter, which ignores a value that is no object
activateCacheForImage(cache, props) ==
    LET src == getImageSrcKey(convertProps(props))
    IN  IF src = "__proto__" THEN cache ELSE cache \cup {src}

(***************************************************************************)
(* Capability flags, computed when the module is loaded.                   *)
(***************************************************************************)
Envs ==
    { e \in [isBrowser : BOOLEAN, htmlImageLoading : BOOLEAN,
             intersectionObserver : BOOLEAN] :
        \* without a window there is no DOM class and no observer class
        ~e.isBrowser => (~e.htmlImageLoading /\ ~e.intersectionObserver) }

hasNativeLazyLoadSupport == env.htmlImageLoading
isBrowser == env.isBrowser
hasIOSupport == isBrowser /\ env.intersectionObserver

(***************************************************************************)
(* The Image instance.                                                     *)
(***************************************************************************)
ControllerState(isVisible, imgLoaded, imgCached, fadeIn) ==
    [isVisible |-> isVisible, imgLoaded |-> imgLoaded,
     imgCached |-> imgCached, fadeIn |-> fadeIn]

\* Fields of an instance.  life, srcChanged, replaced and the fields from
\* `second` on are not fields of the class: life is React's lifecycle
\* position, srcChanged says that the parent has rendered the instance
\* again with an image of another src, replaced that React has put the
\* replacement in the place of the first wrapper, `second` is the setState
\* callback React still has to run (with the imageInCache it closed over
\* and the img.currentSrc it will read), and the rest records the calls made
\* to the props' hooks and the transitions render has drawn.
NoController ==
    [life |-> "none",
     props |-> [critical |-> FALSE, loading |-> "lazy", fadeIn |-> FALSE,
                fluid |-> <<Variant("a.jpg", "a.jpg 1x", FALSE)>>],
     seenBefore |-> FALSE, useIOSupport |-> FALSE,
     state |-> ControllerState(FALSE, FALSE, FALSE, FALSE),
     srcChanged |-> FALSE, replaced |-> FALSE,
     second |-> [pending |-> FALSE, imageInCache |-> FALSE,
                 currentSrc |-> FALSE],
     startLoadCalls |-> 0, wasCached |-> FALSE,
     onLoadCalls |-> 0, onLoadSaw |-> [inCache |-> FALSE, imgLoaded |-> FALSE],
     onErrorCalls |-> 0,
     fades |-> 0]

\* constructor(props) with fadeIn taken from the props alone
ImageConstructorFadeAlways(props, cache) ==
    LET seenBefore == isBrowser /\ inImageCache(cache, props)
        useIOSupport ==
            /\ ~hasNativeLazyLoadSupport
            /\ hasIOSupport
            /\ ~props.critical
            /\ ~seenBefore
        isVisible ==
            \/ props.critical
            \/ props.loading = "eager"
            \/ (isBrowser /\ (hasNativeLazyLoadSupport \/ ~useIOSupport))
    IN  [NoController EXCEPT
            !.life = "constructed",
            !.props = props,
            !.seenBefore = seenBefore,
            !.useIOSupport = useIOSupport,
            !.state = ControllerState(isVisible, FALSE, FALSE, props.fadeIn)]

\* constructor(props), lines 281-310
\* the constructor deferring through the observer whether or not the image
\* was seen before
ImageConstructorSeenStillDefers(props, cache) ==
    LET seenBefore == isBrowser /\ inImageCache(cache, props)
        useIOSupport == /\ ~hasNativeLazyLoadSupport
                        /\ hasIOSupport
                        /\ ~props.critical
        isVisible == \/ props.critical
                     \/ props.loading = "eager"
                     \/ (isBrowser /\ (hasNativeLazyLoadSupport \/ ~useIOSupport))
    IN  [NoController EXCEPT
            !.life = "constructed",
            !.props = props,
            !.seenBefore = seenBefore,
            !.useIOSupport = useIOSupport,
            !.state = ControllerState(isVisible, FALSE, FALSE,
                                      ~seenBefore /\ props.fadeIn)]

\* the constructor without the fallback to visible when there is nothing to
\* defer with
ImageConstructorNoFallback(props, cache) ==
    LET seenBefore == isBrowser /\ inImageCache(cache, props)
        useIOSupport == /\ ~hasNativeLazyLoadSupport
                        /\ hasIOSupport
                        /\ ~props.critical
                        /\ ~seenBefore
        isVisible == \/ props.critical
                     \/ props.loading = "eager"
                     \/ (isBrowser /\ hasNativeLazyLoadSupport)
    IN  [NoController EXCEPT
            !.life = "constructed",
            !.props = props,
            !.seenBefore = seenBefore,
            !.useIOSupport = useIOSupport,
            !.state = ControllerState(isVisible, FALSE, FALSE,
                                      ~seenBefore /\ props.fadeIn)]

ImageConstructor(props, cache) ==
    LET seenBefore == isBrowser /\ inImageCache(cache, props)
        useIOSupport ==
            /\ ~hasNativeLazyLoadSupport
            /\ hasIOSupport
            /\ ~props.critical
            /\ ~seenBefore
        isVisible ==
            \/ props.critical
            \/ props.loading = "eager"
            \/ (isBrowser /\ (hasNativeLazyLoadSupport \/ ~useIOSupport))
    IN  [NoController EXCEPT
            !.life = "constructed",
            !.props = props,
            !.seenBefore = seenBefore,
            !.useIOSupport = useIOSupport,
            !.state = ControllerState(isVisible, FALSE, FALSE,
                                      ~seenBefore /\ props.fadeIn)]

\* render(): the two style decisions and whether the img element is drawn
shouldReveal(state) == state.fadeIn = FALSE \/ state.imgLoaded
shouldFadeIn(state) == state.fadeIn = TRUE /\ ~state.imgCached
\* render() drawing the img element whether or not isVisible is set
imgRenderedAlways(state) == TRUE
imgRendered(state) == state.isVisible

\* what render draws when the state goes from `old` to `new`: the opacity of
\* the img goes from 0 to 1 under a transition of durationFadeIn ms.  The
\* img is drawn when isVisible is set (line 478): an img that was not drawn
\* before is inserted with the opacity it has, and nothing fades
fadeDrawn(old, new) ==
    /\ imgRendered(old) /\ imgRendered(new)
    /\ ~shouldReveal(old) /\ shouldReveal(new) /\ shouldFadeIn(new)

\* this.setState(update): r with the update applied and the render
\* recorded; React drops the update of a component it has unmounted
setState(r, newState) ==
    IF r.life = "unmounted" THEN r
    ELSE [r EXCEPT !.state = newState,
                   !.fades = IF fadeDrawn(r.state, newState) THEN @ + 1 ELSE @]

\* the callback given to setState as second argument is kept until the
\* update is committed; with the update of an unmounted component React
\* drops the callback too
afterUpdate(r, imageInCache, cur) ==
    IF r.life = "unmounted" THEN r
    ELSE [r EXCEPT
            !.second = [pending |-> TRUE, imageInCache |-> imageInCache,
                        currentSrc |-> cur]]

\* this.props.onLoad(), called when the cache is `cache` and the instance,
\* this.state included, is r
onLoad(r, cache) ==
    [r EXCEPT !.onLoadCalls = @ + 1,
              !.onLoadSaw = [inCache  |-> inImageCache(cache, r.props),
                             imgLoaded |-> r.state.imgLoaded]]

\* handleImageLoaded(), lines 358-366: the cache and the instance after it.
\* React calls it from the load event of the img and componentDidMount calls
\* it, and in both React batches the updates: setState({ imgLoaded: true })
\* is queued, this.props.onLoad() runs with this.state as it was, and the
\* update is applied when the handler has returned.
handleImageLoaded(r, cache) ==
    LET cache1 == activateCacheForImage(cache, r.props)
        queued == [r.state EXCEPT !.imgLoaded = TRUE]
        r1 == onLoad(r, cache1)
        r2 == setState(r1, queued)
    IN  [cache |-> cache1, ctrl |-> r2]

\* this.props.onStartLoad({ wasCached })
onStartLoad(r, wasCached) ==
    [r EXCEPT !.startLoadCalls = @ + 1, !.wasCached = wasCached]

\* the callback calling onStartLoad whether or not the instance is visible
IntersectionCallbackAlwaysNotifies(r, cache, cur) ==
    LET imageInCache == inImageCache(cache, r.props)
        r1 == onStartLoad(r, imageInCache)
        r2 == setState(r1, [r1.state EXCEPT !.isVisible = TRUE])
    IN  afterUpdate(r2, imageInCache, cur)

\* the callback using the seenBefore of the constructor instead of reading
\* the cache again
IntersectionCallbackStale(r, cache, cur) ==
    LET imageInCache == r.seenBefore
        r1 == IF ~r.state.isVisible THEN onStartLoad(r, imageInCache) ELSE r
        r2 == setState(r1, [r1.state EXCEPT !.isVisible = TRUE])
    IN  afterUpdate(r2, imageInCache, cur)

\* the callback handleRef passes to listenToIntersections, up to and
\* including its first setState; cur is img.currentSrc of the img element
\* when React commits that update
IntersectionCallback(r, cache, cur) ==
    LET imageInCache == inImageCache(cache, r.props)
        r1 == IF ~r.state.isVisible THEN onStartLoad(r, imageInCache) ELSE r
        r2 == setState(r1, [r1.state EXCEPT !.isVisible = TRUE])
    IN  afterUpdate(r2, imageInCache, cur)

\* the setState callback of lines 346-353: the second update
SecondUpdate(r) ==
    [setState(r, [r.state EXCEPT !.imgLoaded = r.second.imageInCache,
                                 !.imgCached = r.second.currentSrc])
        EXCEPT !.second = NoController.second]

(***************************************************************************)
(* The intersection registry: getIO, the observer callback and             *)
(* listenToIntersections.  A registry value is [io, observed, listeners];  *)
(* a callback is "handleRef" (the closure of the Image instance that       *)
(* renders the element) or "client" (any other function).                  *)
(***************************************************************************)
Registry(i, o, l) == [io |-> i, observed |-> o, listeners |-> l]

\* listeners.delete(el)
MapDelete(l, el) == [x \in (DOMAIN l) \ {el} |-> l[x]]
\* listeners.set(el, cb)
MapSet(l, el, cb) == [x \in (DOMAIN l) \cup {el} |-> IF x = el THEN cb ELSE l[x]]

\* getIO(): whether an observer exists after the call (it is created on
\* first use when window.IntersectionObserver exists, and then returned)
getIO(ioNow) == ioNow \/ (isBrowser /\ env.intersectionObserver)

\* listenToIntersections(el, cb): the registry after the call, and the
\* observer the returned closure has captured ("observer" or "undefined")
listenToIntersections(rg, el, cb) ==
    LET observer == getIO(rg.io)
    IN  IF observer
        THEN [registry |-> Registry(TRUE, rg.observed \cup {el},
                                    MapSet(rg.listeners, el, cb)),
              unsubscribe |-> "observer"]
        ELSE [registry |-> rg, unsubscribe |-> "undefined"]

\* the closure calling observer.disconnect() instead of unobserve(el)
UnsubscribeDisconnect(rg, closure, el) ==
    IF closure = "undefined"
    THEN [registry |-> rg, threw |-> TRUE]
    ELSE [registry |-> Registry(rg.io, {}, MapDelete(rg.listeners, el)),
          threw |-> FALSE]

\* the closure listenToIntersections returned, called: observer.unobserve(el)
\* throws a TypeError when the captured observer is undefined
Unsubscribe(rg, closure, el) ==
    IF closure = "undefined"
    THEN [registry |-> rg, threw |-> TRUE]
    ELSE [registry |-> Registry(rg.io, rg.observed \ {el},
                                MapDelete(rg.listeners, el)),
          threw |-> FALSE]

\* one IntersectionObserverEntry; the ratio is 0 or positive
Entries ==
    [target : Elements, isIntersecting : BOOLEAN, intersectionRatio : {0, 1}]

\* the entries for the elements the callers of the registry subscribe
FirstEntries == { entry \in Entries : entry.target \in Controllers }

Intersecting(entry) == entry.isIntersecting \/ entry.intersectionRatio > 0

\* the batches the browser hands over: one entry, or two (which may name
\* the same element twice)
Batches == [{1} -> FirstEntries] \cup [{1, 2} -> FirstEntries]

\* batches of one entry, as a browser that sets isIntersecting builds it.
\* The observer callback handles the entries of a batch one after the other
\* and each callback of handleRef runs to its end, second update included,
\* before the next entry is looked at, so for the instances a batch is a
\* sequence of batches of one entry.
SingleEntryBatches ==
    [{1} -> { entry \in Entries :
                entry.isIntersecting <=> entry.intersectionRatio > 0 }]

\* cb(): the callback of element el runs.  w is the world the observer
\* callback works on: [observed, listeners, ctrl, reg]; dom[el] is
\* img.currentSrc of the img element of el once the update is committed.
\* The closure handleRef made holds the instance that drew the element.
InvokeCallback(w, el, cb, cache, dom) ==
    LET w1 == [w EXCEPT
                 !.reg[el].fired = @ + 1,
                 !.reg[el].entryGone =
                     @ /\ el \notin w.observed /\ el \notin DOMAIN w.listeners]
    IN  IF cb = "handleRef"
        THEN [w1 EXCEPT
                !.ctrl[owner(el)] = IntersectionCallback(@, cache, dom[el])]
        ELSE w1

\* the body of entries.forEach without io.unobserve and listeners.delete
ForEachEntryKeepsEntry(w, entry, cache, dom) ==
    IF entry.target \in DOMAIN w.listeners
    THEN LET cb == w.listeners[entry.target]
         IN  IF Intersecting(entry)
             THEN InvokeCallback(w, entry.target, cb, cache, dom)
             ELSE w
    ELSE w

\* the body of entries.forEach, lines 99-109
ForEachEntry(w, entry, cache, dom) ==
    IF entry.target \in DOMAIN w.listeners
    THEN LET cb == w.listeners[entry.target]
         IN  IF Intersecting(entry)
             THEN LET w1 == [w EXCEPT !.observed = @ \ {entry.target}]
                      w2 == [w1 EXCEPT
                               !.listeners = MapDelete(@, entry.target)]
                  IN  InvokeCallback(w2, entry.target, cb, cache, dom)
             ELSE w
    ELSE w

RECURSIVE ObserverCallback(_, _, _, _)
\* the function given to new IntersectionObserver, lines 98-110
ObserverCallback(w, entries, cache, dom) ==
    IF entries = <<>> THEN w
    ELSE ObserverCallback(ForEachEntry(w, Head(entries), cache, dom),
                          Tail(entries), cache, dom)

\* what the callers of the registry have seen for an element
\* fired: calls of its callback; entryGone: the entry was off the observer
\* and off the map whenever the callback ran; unsubs: calls of its closure
NoReg == [fired |-> 0, entryGone |-> TRUE, unsubs |-> 0]

\* hit: an intersecting entry for the element was handed over in a batch at
\* whose start it was registered; twice: a batch held two such entries;
\* miss: an entry that does not intersect was handed over while registered
NoHanded == [hit |-> FALSE, twice |-> FALSE, miss |-> FALSE]

(***************************************************************************)
(* Lifecycle methods of Image.  The hooks onStartLoad, onLoad and onError  *)
(* are taken to be supplied, so that every call the code makes to them is  *)
(* recorded.                                                               *)
(***************************************************************************)
\* handleRef(ref), lines 331-356: ref is a wrapper element or null.  What
\* it assigns to this.cleanUpListeners is given as unsubscribe; "unset" is
\* no assignment
handleRef(r, rg, ref) ==
    IF r.useIOSupport /\ ref # Null
    THEN listenToIntersections(rg, ref, "handleRef")
    ELSE [registry |-> rg, unsubscribe |-> "unset"]

\* componentDidMount(), lines 312-322; complete is img.complete
componentDidMount(r, cache, complete) ==
    LET r1 == IF r.state.isVisible
              THEN onStartLoad(r, inImageCache(cache, r.props))
              ELSE r
    IN  IF r1.props.critical /\ imgRendered(r1.state) /\ complete
        THEN handleImageLoaded(r1, cache)
        ELSE [cache |-> cache, ctrl |-> r1]

\* componentWillUnmount(), lines 324-328
componentWillUnmount(rg, closure, el) ==
    IF closure # "unset"
    THEN Unsubscribe(rg, closure, el)
    ELSE [registry |-> rg, threw |-> FALSE]

(***************************************************************************)
(* Actions.                                                                *)
(***************************************************************************)
EmptyMap == [x \in {} |-> "client"]

\* the events the img element of an instance has fired
NoEvents == [load |-> 0, error |-> 0]

Init ==
    /\ env \in Envs
    /\ imageCache = {}
    /\ io = FALSE
    /\ observed = {}
    /\ listeners = EmptyMap
    /\ cleanUpListeners = [e \in Elements |-> "unset"]
    /\ ctrl = [c \in Controllers |-> NoController]
    /\ reg = [e \in Elements |-> NoReg]
    /\ handed = [e \in Elements |-> NoHanded]
    /\ thrown = FALSE
    /\ events = [c \in Controllers |-> NoEvents]

\* the wrapper element instance c renders at present
wrapper(c) == IF ctrl[c].replaced THEN Replacement(c) ELSE c

\* no setState callback is waiting to run
Idle == \A c \in Controllers : ~ctrl[c].second.pending

\* React constructs an Image with these props (in a browser or on a server)
Construct(c, props) ==
    /\ Idle
    /\ ctrl[c].life = "none"
    /\ cleanUpListeners[c] = "unset"
    /\ ctrl' = [ctrl EXCEPT ![c] = ImageConstructor(props, imageCache)]
    /\ UNCHANGED <<env, imageCache, io, observed, listeners, cleanUpListeners,
                   reg, handed, thrown, events>>

\* React commits the first render in a browser: the img element exists if
\* render drew it, the wrapper's ref callback runs, then componentDidMount.
\* The server renderer never commits, so there is no Mount without a window.
Mount(c, complete) ==
    /\ Idle
    /\ isBrowser
    /\ ctrl[c].life = "constructed"
    /\ complete => imgRendered(ctrl[c].state)
    /\ LET r0 == [ctrl[c] EXCEPT !.life = "mounted"]
           sub == handleRef(r0, Registry(io, observed, listeners), c)
           done == componentDidMount(r0, imageCache, complete)
       IN  /\ io' = sub.registry.io
           /\ observed' = sub.registry.observed
           /\ listeners' = sub.registry.listeners
           /\ cleanUpListeners' = [cleanUpListeners EXCEPT ![c] = sub.unsubscribe]
           /\ imageCache' = done.cache
           /\ ctrl' = [ctrl EXCEPT ![c] = done.ctrl]
    /\ UNCHANGED <<env, reg, handed, thrown, events>>

\* the img element fires load: onLoad={this.handleImageLoaded}
LoadEvent(c) ==
    /\ Idle
    /\ ctrl[c].life = "mounted"
    /\ imgRendered(ctrl[c].state)
    /\ events[c].load < MaxLoads
    /\ LET done == handleImageLoaded(ctrl[c], imageCache)
       IN  /\ imageCache' = done.cache
           /\ ctrl' = [ctrl EXCEPT ![c] = done.ctrl]
    /\ events' = [events EXCEPT ![c].load = @ + 1]
    /\ UNCHANGED <<env, io, observed, listeners, cleanUpListeners, reg, handed,
                   thrown>>

\* the img element fires error, with handleImageLoaded wired to it as well
ErrorEventMarksLoaded(c) ==
    /\ Idle
    /\ ctrl[c].life = "mounted"
    /\ imgRendered(ctrl[c].state)
    /\ events[c].error < MaxErrors
    /\ LET done == handleImageLoaded(ctrl[c], imageCache)
       IN  /\ imageCache' = done.cache
           /\ ctrl' = [ctrl EXCEPT ![c] = [done.ctrl EXCEPT
                                             !.onLoadCalls = ctrl[c].onLoadCalls,
                                             !.onErrorCalls = @ + 1]]
    /\ events' = [events EXCEPT ![c].error = @ + 1]
    /\ UNCHANGED <<env, io, observed, listeners, cleanUpListeners, reg, handed,
                   thrown>>

\* the img element fires error: onError={this.props.onError}
ErrorEvent(c) ==
    /\ Idle
    /\ ctrl[c].life = "mounted"
    /\ imgRendered(ctrl[c].state)
    /\ events[c].error < MaxErrors
    /\ ctrl' = [ctrl EXCEPT ![c].onErrorCalls = @ + 1]
    /\ events' = [events EXCEPT ![c].error = @ + 1]
    /\ UNCHANGED <<env, imageCache, io, observed, listeners, cleanUpListeners,
                   reg, handed, thrown>>

\* the parent renders the Image again with other props.  React keeps the
\* instance: the constructor does not run again, there is no
\* componentDidUpdate, this.props is the new props and render() runs.  When
\* the key of the wrapper (line 430) is another one React removes the
\* wrapper and draws a new one: the ref callback runs with null, then with
\* the new element, and this.cleanUpListeners, which the model keeps with
\* the element the closure is for, is the closure of the new element.
Rerender(c, props) ==
    /\ Idle
    /\ ctrl[c].life = "mounted"
    /\ props # ctrl[c].props
    /\ LET r == [ctrl[c] EXCEPT
                    !.props = props,
                    !.srcChanged =
                        @ \/ getImageSrcKey(convertProps(props))
                               # getImageSrcKey(convertProps(ctrl[c].props))]
           rg == Registry(io, observed, listeners)
       IN  IF wrapperKey(props) # wrapperKey(ctrl[c].props)
           THEN /\ ~ctrl[c].replaced
                /\ LET detached == handleRef(r, rg, Null)
                       sub == handleRef(r, detached.registry, Replacement(c))
                   IN  /\ io' = sub.registry.io
                       /\ observed' = sub.registry.observed
                       /\ listeners' = sub.registry.listeners
                       /\ cleanUpListeners' =
                             [cleanUpListeners EXCEPT
                                ![Replacement(c)] = sub.unsubscribe]
                /\ ctrl' = [ctrl EXCEPT ![c] = [r EXCEPT !.replaced = TRUE]]
           ELSE /\ ctrl' = [ctrl EXCEPT ![c] = r]
                /\ UNCHANGED <<io, observed, listeners, cleanUpListeners>>
    /\ UNCHANGED <<env, imageCache, reg, handed, thrown, events>>

\* an instance React has unmounted and that nothing refers to any more
Destroyed == [NoController EXCEPT !.life = "unmounted"]

\* a closure of handleRef that holds instance c is in the map l
Held(c, l) ==
    \E el \in DOMAIN l : owner(el) = c /\ l[el] = "handleRef"

\* React unmounts the instance; the instance is dropped unless a closure in
\* the listener map still holds it
Unmount(c) ==
    /\ Idle
    /\ ctrl[c].life = "mounted"
    /\ LET el == wrapper(c)
           out == componentWillUnmount(Registry(io, observed, listeners),
                                       cleanUpListeners[el], el)
       IN  /\ observed' = out.registry.observed
           /\ listeners' = out.registry.listeners
           /\ thrown' = (thrown \/ out.threw)
           /\ reg' = [reg EXCEPT ![el].unsubs =
                        IF cleanUpListeners[el] # "unset" THEN @ + 1 ELSE @]
           /\ ctrl' = [ctrl EXCEPT ![c] =
                         IF Held(c, out.registry.listeners)
                         THEN [@ EXCEPT !.life = "unmounted"]
                         ELSE Destroyed]
           /\ events' = [events EXCEPT ![c] =
                           IF Held(c, out.registry.listeners)
                           THEN @ ELSE NoEvents]
    /\ UNCHANGED <<env, imageCache, io, cleanUpListeners, handed>>

\* number of intersecting entries of the batch whose target is el
RECURSIVE Hits(_, _)
Hits(batch, el) ==
    IF batch = <<>> THEN 0
    ELSE (IF Head(batch).target = el /\ Intersecting(Head(batch)) THEN 1 ELSE 0)
         + Hits(Tail(batch), el)

\* the callback of el is a handleRef closure that this batch makes run
Fires(batch, el) ==
    /\ Hits(batch, el) > 0
    /\ el \in DOMAIN listeners
    /\ listeners[el] = "handleRef"

\* the browser hands a batch of entries to the observer callback: entries
\* for observed elements (entries queued for an element stay in the batch
\* when an earlier entry of the batch unobserves it), or one entry that was
\* queued for an element before it was unobserved; dom[el] is
\* whether img.currentSrc of the img element of el is a non-empty string
\* when the update of its intersection callback is committed (browsers
\* without currentSrc leave it undefined whatever the img has loaded)
Deliverable(batch) ==
    /\ Idle
    /\ io
    /\ \A i \in DOMAIN batch :
          \/ batch[i].target \in observed
          \/ Len(batch) = 1 /\ cleanUpListeners[batch[i].target] = "observer"

Report(batch, dom) ==
    /\ Deliverable(batch)
    /\ \A el \in Elements :
          /\ dom[el] => Fires(batch, el)
    /\ LET w0 == [observed |-> observed, listeners |-> listeners,
                  ctrl |-> ctrl, reg |-> reg]
           w == ObserverCallback(w0, batch, imageCache, dom)
       IN  /\ observed' = w.observed
           /\ listeners' = w.listeners
           /\ ctrl' = w.ctrl
           /\ reg' = w.reg
    /\ UNCHANGED <<env, imageCache, io, cleanUpListeners, thrown, events>>

\* the observer reports to the callbacks of the instances.  An entry for an
\* element that is no longer observed finds no listener (line 102) and
\* changes nothing: such a report is a stuttering step
ObserverReport(batch) ==
    /\ Deliverable(batch)
    /\ \A i \in DOMAIN batch : batch[i].target \in observed
    /\ \E cur \in BOOLEAN :
          /\ cur => \E el \in Elements : Fires(batch, el)
          /\ Report(batch, [el \in Elements |-> cur /\ Fires(batch, el)])
    /\ UNCHANGED handed

\* React runs the setState callback of the intersection callback
SetStateCallback(c) ==
    /\ ctrl[c].second.pending
    /\ ctrl' = [ctrl EXCEPT ![c] = SecondUpdate(@)]
    /\ UNCHANGED <<env, imageCache, io, observed, listeners, cleanUpListeners,
                   reg, handed, thrown, events>>

\* the instance the parent renders again; the other one is rendered once
Rerendered == {"c1"}

\* props are props of a later render of an instance that has the props
\* old: another fluid, or the same image now critical
LaterProps(old, props) ==
    /\ props.fadeIn = old.fadeIn
    /\ props.loading = old.loading
    /\ \/ props.fluid # old.fluid /\ props.critical = old.critical
       \/ props.fluid = old.fluid /\ props.critical /\ ~old.critical

\* the parent renders instance c again, with these props
Update(c, props) ==
    /\ ctrl[c].life = "mounted"
    /\ LaterProps(ctrl[c].props, props)
    /\ Rerender(c, props)

\* the props the instances are given: the default fadeIn
\* (Image.defaultProps); critical stands for loading = "eager" as well
\* (convertProps, and every test of the class on loading is a test on
\* critical too); srcSet names the file of src
SpecProps ==
    { props \in PropsSet :
        /\ props.fadeIn /\ ~(props.critical /\ props.loading = "eager")
        /\ props.fluid \in MatchingLists }

\* the props of the instance the parent renders once: a lazy image that is
\* not critical, the one whose path through the component is the longest
Deferred(set) ==
    { props \in set : ~props.critical /\ props.loading = "lazy" }

Next ==
    \/ \E props \in SpecProps : Construct("c1", props)
    \/ \E props \in Deferred(SpecProps) : Construct("c2", props)
    \/ \E c \in Controllers, complete \in BOOLEAN : Mount(c, complete)
    \/ \E c \in Rerendered, props \in SpecProps : Update(c, props)
    \/ \E c \in Controllers : LoadEvent(c)
    \/ \E c \in Controllers : ErrorEvent(c)
    \/ \E c \in Controllers : Unmount(c)
    \/ \E batch \in SingleEntryBatches : ObserverReport(batch)
    \/ \E c \in Controllers : SetStateCallback(c)

Spec == Init /\ [][Next]_vars

(***************************************************************************)
(* The same life for every image of the model, the one whose src changes   *)
(* under one srcSet included.  The error event of the img is left to Spec: *)
(* it is handed to props.onError and touches nothing of the component      *)
(* (ErrorEvent).                                                           *)
(***************************************************************************)
UpdateProps ==
    { props \in PropsSet :
        props.fadeIn /\ ~(props.critical /\ props.loading = "eager") }

UpdateNext ==
    \/ \E props \in UpdateProps : Construct("c1", props)
    \/ \E props \in Deferred(UpdateProps) : Construct("c2", props)
    \/ \E c \in Controllers, complete \in BOOLEAN : Mount(c, complete)
    \/ \E c \in Rerendered, props \in UpdateProps : Update(c, props)
    \/ \E c \in Controllers : LoadEvent(c)
    \/ \E c \in Controllers : Unmount(c)
    \/ \E batch \in SingleEntryBatches : ObserverReport(batch)
    \/ \E c \in Controllers : SetStateCallback(c)

UpdateSpec == Init /\ [][UpdateNext]_vars

(***************************************************************************)
(* The registry used directly: a caller subscribes an element with a       *)
(* callback of its own and calls the closure it got back, any number of    *)
(* times, while the browser reports intersections.                         *)
(***************************************************************************)
ClientSubscribe(el) ==
    /\ cleanUpListeners[el] = "unset"
    /\ ctrl[owner(el)].life = "none"
    /\ LET sub == listenToIntersections(Registry(io, observed, listeners),
                                        el, "client")
       IN  /\ io' = sub.registry.io
           /\ observed' = sub.registry.observed
           /\ listeners' = sub.registry.listeners
           /\ cleanUpListeners' = [cleanUpListeners EXCEPT ![el] = sub.unsubscribe]
    /\ UNCHANGED <<env, imageCache, ctrl, reg, handed, thrown, events>>

ClientUnsubscribe(el) ==
    /\ cleanUpListeners[el] # "unset"
    /\ reg[el].unsubs < MaxUnsubCalls
    /\ LET out == Unsubscribe(Registry(io, observed, listeners),
                              cleanUpListeners[el], el)
       IN  /\ observed' = out.registry.observed
           /\ listeners' = out.registry.listeners
           /\ thrown' = (thrown \/ out.threw)
    /\ reg' = [reg EXCEPT ![el].unsubs = @ + 1]
    /\ UNCHANGED <<env, imageCache, io, cleanUpListeners, ctrl, handed, events>>

\* number of entries of the batch for el that do not intersect
RECURSIVE Misses(_, _)
Misses(batch, el) ==
    IF batch = <<>> THEN 0
    ELSE (IF Head(batch).target = el /\ ~Intersecting(Head(batch)) THEN 1 ELSE 0)
         + Misses(Tail(batch), el)

\* the browser hands over a batch, and what it handed over is written down
ClientReport(batch) ==
    /\ Report(batch, [el \in Elements |-> FALSE])
    /\ handed' = [el \in Elements |->
                    IF el \in DOMAIN listeners
                    THEN [hit   |-> handed[el].hit \/ Hits(batch, el) > 0,
                          twice |-> handed[el].twice \/ Hits(batch, el) > 1,
                          miss  |-> handed[el].miss \/ Misses(batch, el) > 0]
                    ELSE handed[el]]

RegistryNext ==
    \/ \E el \in Controllers : ClientSubscribe(el)
    \/ \E el \in Controllers : ClientUnsubscribe(el)
    \/ \E batch \in Batches : ClientReport(batch)

RegistrySpec == Init /\ [][RegistryNext]_vars

(***************************************************************************)
(* Properties.                                                             *)
(***************************************************************************)
\* the identity of an instance: the key of its props in the image cache
Identity(c) == getImageSrcKey(convertProps(ctrl[c].props))

\* the step constructs instance c
Constructs(c) == ctrl[c].life = "none" /\ ctrl'[c].life = "constructed"

\* C1, as claimed: an instance constructed when the cache reports its
\* identity as loaded starts with isVisible = true and fadeIn = false,
\* whatever its props and the capability flags are.
C1_Claimed_ReportedStartsVisibleNoFade ==
    [][\A c \in Controllers :
         (Constructs(c) /\ inImageCache(imageCache, ctrl'[c].props))
         => (ctrl'[c].state.isVisible /\ ~ctrl'[c].state.fadeIn)]_vars

\* C2, as claimed: an instance whose identity has not been marked in the
\* cache, constructed with deferral required (not critical, not eager, no
\* native lazy loading, an IntersectionObserver available), starts with
\* isVisible, imgLoaded and imgCached all false.
C2_Claimed_UnmarkedDeferredStartsPending ==
    [][\A c \in Controllers :
         (Constructs(c)
            /\ getImageSrcKey(convertProps(ctrl'[c].props)) \notin imageCache
            /\ ~ctrl'[c].props.critical
            /\ ctrl'[c].props.loading # "eager"
            /\ ~hasNativeLazyLoadSupport
            /\ hasIOSupport)
         => (/\ ~ctrl'[c].state.isVisible
             /\ ~ctrl'[c].state.imgLoaded
             /\ ~ctrl'[c].state.imgCached)]_vars

\* C3, as claimed: of the instances that share an identity, at most one
\* ever draws the fade.
C3_Claimed_OneFadePerIdentity ==
    \A c, d \in Controllers :
        (c # d /\ ctrl[c].life = "mounted" /\ ctrl[d].life = "mounted"
           /\ Identity(c) = Identity(d))
        => ~(ctrl[c].fades > 0 /\ ctrl[d].fades > 0)

\* C3, amended: an instance constructed in a browser when the cache
\* reported its identity as loaded never draws the fade, and an instance
\* that the parent has not rendered again with an image of another src
\* draws it at most once, however many load events its img fires.
C3_FadeOncePerInstanceNeverWhenSeen ==
    \A c \in Controllers :
        /\ ctrl[c].seenBefore => ctrl[c].fades = 0
        /\ ~ctrl[c].srcChanged => ctrl[c].fades <= 1

\* an instance never rendered again has drawn the fade once and its img has
\* fired load twice, and a later instance of the same identity was
\* constructed seen-before, has loaded and has drawn none
C3_Witness ==
    \E c, d \in Controllers :
        /\ c # d
        /\ Identity(c) = Identity(d)
        /\ ~ctrl[c].srcChanged /\ ctrl[c].fades = 1 /\ events[c].load = 2
        /\ ctrl[d].seenBefore /\ ctrl[d].props.fadeIn
        /\ ctrl[d].state.imgLoaded /\ ctrl[d].fades = 0

\* C4, as claimed: a load completion handled when imgLoaded is already true
\* changes nothing of the instance, leaves the cache alone and does not call
\* onLoad again.
C4_Claimed_LaterLoadsAreNoOps ==
    [][\A c \in Controllers :
         (ctrl[c].state.imgLoaded /\ ctrl[c].life = "mounted"
            /\ ctrl'[c].life = "mounted"
            /\ events'[c].load = events[c].load + 1)
         => (/\ ctrl'[c].state = ctrl[c].state
             /\ imageCache' = imageCache
             /\ ctrl'[c].onLoadCalls = ctrl[c].onLoadCalls)]_vars

\* C5: the callback of a registered element runs exactly once if an
\* intersecting entry for it is handed over while it is registered, however
\* many there are, and not at all otherwise; whenever it runs the element is
\* already off the observer and off the map.
C5_CallbackExactlyOnce ==
    \A el \in Elements :
        /\ reg[el].fired = (IF handed[el].hit THEN 1 ELSE 0)
        /\ reg[el].entryGone
        /\ reg[el].fired > 0 => (el \notin observed /\ el \notin DOMAIN listeners)

\* a callback has run once although one batch held two intersecting entries
\* for its element, and after an entry that did not intersect
C5_Witness ==
    \E el \in Elements :
        reg[el].fired = 1 /\ handed[el].twice /\ handed[el].miss

\* C6: a call of the unsubscribe closure (one that captured an observer)
\* does not throw; made while the entry is pending it removes exactly that
\* entry, made again or after the callback ran it leaves the observed set
\* and the map as they are; and once it has been called the callback of
\* its element is never run.
C6_UnsubscribeIdempotent ==
    [][\A el \in Elements :
         /\ (reg'[el].unsubs # reg[el].unsubs /\ cleanUpListeners[el] = "observer")
            => /\ thrown' = thrown
               /\ io' = io
               /\ IF el \in DOMAIN listeners
                  THEN /\ observed' = observed \ {el}
                       /\ listeners' = MapDelete(listeners, el)
                  ELSE /\ observed' = observed
                       /\ listeners' = listeners
         /\ (reg[el].unsubs > 0 /\ cleanUpListeners[el] = "observer")
            => reg'[el].fired = reg[el].fired]_vars

\* one closure was called twice after its callback had run, another was
\* called while its entry was pending and its callback has not run
C6_Witness ==
    \E el, other \in Elements :
        /\ cleanUpListeners[el] = "observer"
        /\ reg[el].fired = 1 /\ reg[el].unsubs = 2
        /\ cleanUpListeners[other] = "observer"
        /\ reg[other].fired = 0 /\ reg[other].unsubs > 0

\* C7: when the img fires error instead of load, no instance changes its
\* state (imgLoaded stays as it was), the cache is not written, and the
\* onError hook of the instance is called.
C7_ErrorLeavesStateAndCache ==
    [][\A c \in Controllers :
         events'[c].error = events[c].error + 1
         => /\ imageCache' = imageCache
            /\ \A d \in Controllers : ctrl'[d].state = ctrl[d].state
            /\ ctrl'[c].onErrorCalls = ctrl[c].onErrorCalls + 1]_vars

\* an instance got the error, is not loaded, and its identity is not cached
C7_Witness ==
    \E c \in Controllers :
        /\ ctrl[c].onErrorCalls > 0
        /\ ~ctrl[c].state.imgLoaded
        /\ Identity(c) \notin imageCache

\* C8, as claimed: whenever onLoad is called, the cache reports the
\* identity of the instance as loaded and imgLoaded of the instance is
\* true.
C8_Claimed_OnLoadAfterCacheAndState ==
    \A c \in Controllers :
        ctrl[c].onLoadCalls > 0
        => /\ ctrl[c].onLoadSaw.inCache
           /\ ctrl[c].onLoadSaw.imgLoaded

\* C9: in every state of every instance, imgLoaded or imgCached implies
\* isVisible.
C9_LoadedOrCachedImpliesVisible ==
    \A c \in Controllers :
        (ctrl[c].state.imgLoaded \/ ctrl[c].state.imgCached)
        => ctrl[c].state.isVisible

\* an instance that started pending has become visible and has loaded
C9_Witness ==
    \E c \in Controllers :
        /\ ctrl[c].useIOSupport /\ ctrl[c].props.loading = "lazy"
        /\ ctrl[c].state.imgLoaded /\ ctrl[c].state.imgCached
        /\ ctrl[c].onLoadCalls > 0

\* C10: the intersection callback reads the cache when it runs, calls
\* onStartLoad with that flag if the instance was not visible, and sets
\* only isVisible in its first update; the second update sets imgLoaded to
\* the flag and imgCached to whether img.currentSrc is set.
C10_TwoStepVisibility ==
    [][\A c \in Controllers :
         /\ (~ctrl[c].second.pending /\ ctrl'[c].second.pending)
            => /\ ctrl'[c].second.imageInCache
                    = inImageCache(imageCache, ctrl[c].props)
               /\ ctrl'[c].state = [ctrl[c].state EXCEPT !.isVisible = TRUE]
               /\ ~ctrl[c].state.isVisible
                  => /\ ctrl'[c].startLoadCalls = ctrl[c].startLoadCalls + 1
                     /\ ctrl'[c].wasCached
                          = inImageCache(imageCache, ctrl[c].props)
         /\ (ctrl[c].second.pending /\ ~ctrl'[c].second.pending)
            => ctrl'[c].state =
                 [ctrl[c].state EXCEPT
                    !.imgLoaded = ctrl[c].second.imageInCache,
                    !.imgCached = ctrl[c].second.currentSrc]]_vars

\* between the two updates: an instance that started pending when its
\* identity was not cached is visible, not loaded, not cached, and the flag
\* it read and passed to onStartLoad is true
C10_Witness ==
    \E c \in Controllers :
        /\ ctrl[c].second.pending
        /\ ~ctrl[c].seenBefore /\ ctrl[c].useIOSupport
        /\ ctrl[c].state.isVisible
        /\ ~ctrl[c].state.imgLoaded /\ ~ctrl[c].state.imgCached
        /\ ctrl[c].second.imageInCache /\ ctrl[c].second.currentSrc
        /\ ctrl[c].startLoadCalls = 1 /\ ctrl[c].wasCached

Mounts(c) == ctrl[c].life = "constructed" /\ ctrl'[c].life = "mounted"

\* C11, as claimed: a controller that is visible from construction creates
\* no registry subscription when it mounts.
C11_Claimed_RegistersOnlyIfPending ==
    [][\A c \in Controllers :
         (Mounts(c) /\ ctrl[c].state.isVisible)
         => cleanUpListeners'[c] = "unset"]_vars

\* C12, as claimed: with neither native lazy loading nor IntersectionObserver
\* every constructed controller starts visible, with or without a window.
C12_Claimed_NoCapabilityStartsVisible ==
    [][\A c \in Controllers :
         (Constructs(c) /\ ~hasNativeLazyLoadSupport /\ ~hasIOSupport)
         => ctrl'[c].state.isVisible]_vars

\* C12, amended: with neither native lazy loading nor IntersectionObserver a
\* constructed controller starts visible iff there is a window or it is
\* critical or eager; it never registers.
C12_NoCapabilityStartsVisibleInBrowser ==
    [][\A c \in Controllers :
         (Constructs(c) /\ ~hasNativeLazyLoadSupport /\ ~hasIOSupport)
         => /\ ctrl'[c].state.isVisible
               <=> (\/ isBrowser
                    \/ ctrl'[c].props.critical
                    \/ ctrl'[c].props.loading = "eager")
            /\ ~ctrl'[c].useIOSupport]_vars

\* a lazy, not critical, unseen image in a browser without either capability
\* has started visible
C12_Witness ==
    \E c \in Controllers :
        /\ ctrl[c].life = "constructed"
        /\ isBrowser /\ ~hasNativeLazyLoadSupport /\ ~hasIOSupport
        /\ ~ctrl[c].props.critical /\ ctrl[c].props.loading = "lazy"
        /\ ~ctrl[c].seenBefore
        /\ ctrl[c].state.isVisible

\* C13, as claimed: a destroyed controller has no entry in the registry
\* (no element it drew is observed or has a callback), and no later step
\* runs a callback of it or changes it.
C13_Claimed_DestroyedIsUnsubscribed ==
    [][\A c \in Controllers :
         /\ ctrl'[c].life = "unmounted"
            => \A el \in Elements :
                  owner(el) = c
                  => (el \notin observed' /\ el \notin DOMAIN listeners')
         /\ ctrl[c].life = "unmounted"
            => /\ ctrl'[c] = ctrl[c]
               /\ \A el \in Elements :
                     owner(el) = c => reg'[el].fired = reg[el].fired]_vars

\* C14, as claimed: a critical or eager controller whose img is complete when
\* it mounts is loaded by the mount itself: cache marked, imgLoaded set,
\* onLoad called.  (A mount step for a complete img is one whose outcome is
\* that of componentDidMount with img.complete true.)
C14_Claimed_CompleteAtMountLoads ==
    [][\A c \in Controllers :
         (/\ Mounts(c)
          /\ ctrl[c].props.critical \/ ctrl[c].props.loading = "eager"
          /\ imgRendered(ctrl[c].state)
          /\ ctrl'[c] = componentDidMount([ctrl[c] EXCEPT !.life = "mounted"],
                                          imageCache, TRUE).ctrl)
         => /\ ctrl'[c].state.imgLoaded
            /\ Identity(c) \in imageCache'
            /\ ctrl'[c].onLoadCalls = 1]_vars

\* C15: the cache starts with no entry, and an identity it reports as
\* loaded in one state it reports as loaded in the next, whatever the step.
C15_CacheOnlyGrows ==
    /\ imageCache = {}
    /\ [][\A fluid \in VariantLists :
            LET props == [NoController.props EXCEPT !.fluid = fluid]
            IN  inImageCache(imageCache, props)
                => inImageCache(imageCache', props)]_vars

\* both identities are cached, one controller has been destroyed, the other
\* is still mounted
C15_Witness ==
    \E c, d \in Controllers :
        /\ imageCache = {"a.jpg", "b.jpg"}
        /\ ctrl[c].life = "unmounted"
        /\ ctrl[d].life = "mounted" /\ ctrl[d].state.imgLoaded

\* C16, as claimed: without IntersectionObserver the registry records
\* nothing, runs no callback, and neither subscribe nor the closure it
\* returns throws.
C16_Claimed_NoObserverNeverThrows ==
    ~(isBrowser /\ env.intersectionObserver)
    => /\ ~thrown
       /\ ~io /\ observed = {} /\ listeners = EmptyMap
       /\ \A el \in Elements : reg[el].fired = 0

\* C17: a controller constructed in a browser when the cache reported its
\* identity as loaded (an identity marked in the cache is one) has fadeIn
\* false and isVisible true in every state, so shouldFadeIn is false and
\* shouldReveal is true throughout.
C17_SeenNeverFadesNeverWaits ==
    \A c \in Controllers :
        ctrl[c].seenBefore
        => /\ ~ctrl[c].state.fadeIn
           /\ ctrl[c].state.isVisible
           /\ ~shouldFadeIn(ctrl[c].state)
           /\ shouldReveal(ctrl[c].state)

\* a seen controller that asked for the fade and for lazy loading, where the
\* observer is the only means to defer, is mounted and has loaded
C17_Witness ==
    \E c \in Controllers :
        /\ ctrl[c].seenBefore /\ ctrl[c].life = "mounted"
        /\ ctrl[c].props.fadeIn
        /\ ~ctrl[c].props.critical /\ ctrl[c].props.loading = "lazy"
        /\ ~hasNativeLazyLoadSupport /\ hasIOSupport
        /\ ctrl[c].state.imgLoaded /\ ctrl[c].onLoadCalls > 0

\* C18, as claimed: once imgLoaded of a controller is true no step of its
\* life sets it back to false, the second update of the intersection
\* callback included.
C18_Claimed_ImgLoadedMonotone ==
    [][\A c \in Controllers :
         (ctrl[c].state.imgLoaded /\ ctrl'[c].life = "mounted")
         => ctrl'[c].state.imgLoaded]_vars

\* C19, as claimed: imgLoaded of a controller implies that the cache
\* reports its identity as loaded.
C19_Claimed_LoadedImpliesCached ==
    \A c \in Controllers :
        (ctrl[c].life = "mounted" /\ ctrl[c].state.imgLoaded)
        => inImageCache(imageCache, ctrl[c].props)

\* C20: onStartLoad is called at most once in the life of a controller,
\* from its construction to its unmounting: a mounted controller has had
\* exactly one call iff it is visible, none otherwise.
C20_StartLoadAtMostOnce ==
    \A c \in Controllers :
        /\ ctrl[c].life = "mounted"
           => /\ ctrl[c].startLoadCalls <= 1
              /\ ctrl[c].startLoadCalls = 1 <=> ctrl[c].state.isVisible
        /\ ctrl[c].life = "constructed" => ctrl[c].startLoadCalls = 0

\* an eager controller, visible from construction, registered, and its
\* intersection callback has run: onStartLoad was called once
C20_Witness ==
    \E c \in Controllers :
        /\ ctrl[c].life = "mounted" /\ ctrl[c].useIOSupport
        /\ ctrl[c].props.loading = "eager"
        /\ reg[c].fired = 1 /\ ~ctrl[c].second.pending
        /\ ctrl[c].startLoadCalls = 1

(***************************************************************************)
(* The deferred path under fair delivery.  The environment is the one in   *)
(* which images are deferred through the observer; the parent may render a *)
(* waiting instance again.  A controller that waits for the observer has   *)
(* drawn no img, so its img has fired no event and the load event of the   *)
(* img it draws once visible can be delivered.                             *)
(***************************************************************************)
LiveInit ==
    /\ Init
    /\ env = [isBrowser |-> TRUE, htmlImageLoading |-> FALSE,
              intersectionObserver |-> TRUE]

\* the observer reports the wrapper of c as intersecting
IntersectionReport(c) ==
    \E batch \in SingleEntryBatches :
        Hits(batch, wrapper(c)) > 0 /\ ObserverReport(batch)

\* lazy images with the default fadeIn (Image.defaultProps); the fade plays
\* no part in what is delivered.  The image named "constructor" is left to
\* Spec and UpdateSpec: a load marks it as it marks a.jpg
LiveLists ==
    { fluid \in VariantLists : getImageSrcKey([fluid |-> groupByMedia(fluid)])
                                  # "constructor" }

LiveProps ==
    { props \in PropsSet :
        /\ props.fadeIn /\ props.loading = "lazy"
        /\ props.fluid \in LiveLists }

LiveNext ==
    \/ \E props \in LiveProps : Construct("c1", props)
    \/ \E props \in Deferred(LiveProps) : Construct("c2", props)
    \/ \E c \in Controllers, complete \in BOOLEAN : Mount(c, complete)
    \/ \E c \in Rerendered, props \in LiveProps : Update(c, props)
    \/ \E c \in Controllers : LoadEvent(c)
    \/ \E c \in Controllers : ErrorEvent(c)
    \/ \E c \in Controllers : Unmount(c)
    \/ \E batch \in SingleEntryBatches : ObserverReport(batch)
    \/ \E c \in Controllers : SetStateCallback(c)

\* the browser delivers intersection reports and load events; React runs a
\* setState callback it has been given
Fairness ==
    \A c \in Controllers :
        /\ WF_vars(IntersectionReport(c))
        /\ WF_vars(SetStateCallback(c))
        /\ WF_vars(LoadEvent(c))

LiveSpec == LiveInit /\ [][LiveNext]_vars /\ Fairness

\* c is mounted and waits for the observer
PendingMounted(c) ==
    /\ ctrl[c].life = "mounted"
    /\ ctrl[c].useIOSupport
    /\ ~ctrl[c].state.isVisible

\* C21, as claimed: a mounted controller that waits for the observer is
\* eventually visible and loaded with its identity marked in the cache,
\* unless it is destroyed, whatever the other controller does.
C21_Claimed_DeferredPathLive ==
    \A c \in Controllers :
        PendingMounted(c)
        ~> \/ ctrl[c].life = "unmounted"
           \/ /\ ctrl[c].state.isVisible
              /\ ctrl[c].state.imgLoaded
              /\ Identity(c) \in imageCache

====
